---- MODULE Spec2Model ----
(***************************************************************************)
(* Model of Basics/Calculator/Calculator.cpp: the recursive descent        *)
(* Parser (parse, parseExpression, parseTerm, parseExponent, parsePrimary, *)
(* parseNumber, match, skipWhitespace, currentChar) and the read/print     *)
(* loop of main around it.                                                 *)
(*                                                                         *)
(* The C++ call stack is the variable stack: one frame per active call of  *)
(* a parse function.  An action is one segment of a function's body, from  *)
(* its entry or from the return of a callee up to its next call, return or *)
(* throw.  A throw unwinds to the catch block of main in the same step.    *)
(*                                                                         *)
(* A double is modelled as an exact rational [n, d] (d > 0, lowest terms); *)
(* every value outside the tracked range, and every result that is not     *)
(* rational or not finite, is the single value Untracked (d = 0), which is *)
(* absorbing and compares unequal to 0.0, like an IEEE inf or NaN.         *)
(***************************************************************************)
EXTENDS Integers, Sequences, FiniteSets, TLC

\* ------------------------------------------------------------------ bounds

\* Longest input line drawn from the whole alphabet.
MaxLen == 3

\* Most operators in a generated well-formed expression.
MaxOps == 2

\* Largest numerator or denominator of a tracked value.
MaxAbs == 10000

\* ------------------------------------------------------------ characters

Digits == {"0", "2", "3"}

Operators == {"+", "-", "*", "/", "^"}

Alphabet == Digits \cup Operators \cup {".", "(", ")", " ", "\n"}

\* std::isspace in the "C" locale: space, \t, \n, \v, \f, \r.
IsSpace(c) == c \in {" ", "\t", "\n", "\f", "\r"}

\* std::isdigit
IsDigit(c) == c \in {"0", "1", "2", "3", "4", "5", "6", "7", "8", "9"}

DigitVal(c) ==
  CASE c = "0" -> 0 [] c = "1" -> 1 [] c = "2" -> 2 [] c = "3" -> 3
    [] c = "4" -> 4 [] c = "5" -> 5 [] c = "6" -> 6 [] c = "7" -> 7
    [] c = "8" -> 8 [] c = "9" -> 9

\* ---------------------------------------------------------------- values

Abs(x) == IF x < 0 THEN -x ELSE x

RECURSIVE Gcd(_, _)
Gcd(a, b) == IF b = 0 THEN a ELSE Gcd(b, a % b)

Untracked == [n |-> 0, d |-> 0]

IsTracked(v) == v.d # 0

\* The value n/d in lowest terms, or Untracked outside the tracked range.
Rat(n, d) ==
  IF d = 0 THEN Untracked
  ELSE LET g == Gcd(Abs(n), Abs(d))
           s == IF d < 0 THEN -1 ELSE 1
           nn == s * (n \div g)
           dd == s * (d \div g)
       IN IF Abs(nn) > MaxAbs \/ dd > MaxAbs THEN Untracked
          ELSE [n |-> nn, d |-> dd]

Num(k) == Rat(k, 1)

Zero == Num(0)

\* rhs == 0.0
IsZero(v) == IsTracked(v) /\ v.n = 0

\* value += rhs
Add(a, b) ==
  IF IsTracked(a) /\ IsTracked(b) THEN Rat(a.n * b.d + b.n * a.d, a.d * b.d)
  ELSE Untracked

\* -value
Neg(a) == IF IsTracked(a) THEN [n |-> -a.n, d |-> a.d] ELSE Untracked

\* value -= rhs
Sub(a, b) == Add(a, Neg(b))

\* value *= rhs
Mul(a, b) ==
  IF IsTracked(a) /\ IsTracked(b) THEN Rat(a.n * b.n, a.d * b.d)
  ELSE Untracked

\* value /= rhs, for rhs other than 0.0
Div(a, b) ==
  IF IsTracked(a) /\ IsTracked(b) /\ b.n # 0 THEN Rat(a.n * b.d, a.d * b.n)
  ELSE Untracked

\* b to the power k, a natural number, by repeated squaring.
RECURSIVE PowNat(_, _)
PowNat(b, k) ==
  IF k = 0 THEN Num(1)
  ELSE LET h == PowNat(b, k \div 2)
       IN IF k % 2 = 0 THEN Mul(h, h) ELSE Mul(Mul(h, h), b)

\* std::pow(base, exponent): pow(x, 0) and pow(1, y) are 1 for every x and y;
\* an integer exponent gives an exact power; 0 to a positive power is 0; every
\* other case (a root, inf, NaN) is not tracked.
Pow(base, exponent) ==
  IF IsZero(exponent) THEN Num(1)
  ELSE IF base = Num(1) THEN Num(1)
  ELSE IF ~IsTracked(base) \/ ~IsTracked(exponent) THEN Untracked
  ELSE IF exponent.d = 1
       THEN IF exponent.n > 0 THEN PowNat(base, exponent.n)
            ELSE IF base.n = 0 THEN Untracked
            ELSE PowNat(Div(Num(1), base), -exponent.n)
  ELSE IF base.n = 0 /\ exponent.n > 0 THEN Zero
  ELSE Untracked

\* --------------------------------------------------------- lexical helpers

\* void skipWhitespace(): the cursor after the loop, started at p.
RECURSIVE skipWhitespace(_, _)
skipWhitespace(s, p) ==
  IF p < Len(s) /\ IsSpace(s[p + 1]) THEN skipWhitespace(s, p + 1) ELSE p

\* char currentChar() const; "NUL" stands for '\0'.
currentChar(s, p) == IF p < Len(s) THEN s[p + 1] ELSE "NUL"

\* matchFrom with the bug of consuming a character when the comparison fails.
matchFromAdvancing(s, p, q, expected) ==
  IF q < Len(s) /\ s[q + 1] = expected
  THEN [at |-> p, expected |-> expected, ok |-> TRUE, pos |-> q + 1]
  ELSE [at |-> p, expected |-> expected, ok |-> FALSE, pos |-> q + 1]

\* The record of one call match(expected) made with the cursor at p: whether
\* it returned true, and the cursor it left.
matchFrom(s, p, q, expected) ==
  IF q < Len(s) /\ s[q + 1] = expected
  THEN [at |-> p, expected |-> expected, ok |-> TRUE, pos |-> q + 1]
  ELSE [at |-> p, expected |-> expected, ok |-> FALSE, pos |-> q]

\* bool match(char expected)
match(s, p, expected) == matchFrom(s, p, skipWhitespace(s, p), expected)

\* The scanning loop of parseNumber from p: where it stops, and whether it
\* stopped on a second decimal point.
RECURSIVE scanNumber(_, _, _)
scanNumber(s, p, decimalPointSeen) ==
  IF p < Len(s) /\ (IsDigit(s[p + 1]) \/ s[p + 1] = ".")
  THEN IF s[p + 1] = "."
       THEN IF decimalPointSeen THEN [bad |-> TRUE, pos |-> p]
            ELSE scanNumber(s, p + 1, TRUE)
       ELSE scanNumber(s, p + 1, decimalPointSeen)
  ELSE [bad |-> FALSE, pos |-> p]

\* The characters of s at offsets from..to-1: expr.substr(from, to - from).
substr(s, from, to) == SubSeq(s, from + 1, to)

\* The integer digits of a literal read left to right, as acc * 10 + digit.
RECURSIVE digitsValue(_, _)
digitsValue(ds, acc) ==
  IF ds = <<>> THEN acc
  ELSE digitsValue(Tail(ds), Add(Mul(acc, Num(10)), Num(DigitVal(Head(ds)))))

RECURSIVE tenTo(_)
tenTo(k) == IF k = 0 THEN Num(1) ELSE Mul(Num(10), tenTo(k - 1))

\* std::stod on a run of digits holding at most one '.': no conversion
\* (std::invalid_argument) when the run holds no digit, else the decimal
\* value of the run.  (std::out_of_range needs a literal of more than 300
\* digits, which no input of the model has.)
stod(run) ==
  LET dots == {i \in 1..Len(run) : run[i] = "."}
      cut == IF dots = {} THEN Len(run) + 1 ELSE CHOOSE i \in dots : TRUE
      whole == SubSeq(run, 1, cut - 1)
      frac == SubSeq(run, cut + 1, Len(run))
  IN IF Len(whole) + Len(frac) = 0 THEN [ok |-> FALSE, value |-> Zero]
     ELSE [ok |-> TRUE,
           value |-> Div(digitsValue(whole \o frac, Zero), tenTo(Len(frac)))]

\* ------------------------------------------------------------ error kinds

\* "Unexpected token at position "
UnexpectedToken == "Unexpected token"

\* "Division by zero at position "
DivisionByZero == "Division by zero"

\* "Missing closing parenthesis at position "
UnmatchedParenthesis == "Missing closing parenthesis"

\* "Invalid number format at position "
MalformedNumber == "Invalid number format"

\* "Expected a number at position "
ExpectedNumber == "Expected a number"

\* "Number conversion error at position "
NumberConversionError == "Number conversion error"

\* ----------------------------------------------------------------- state

VARIABLES
  pcMain,   \* where main is: "prompt", "getline", "eval" (inside parser.parse()) or "halt"
  expr,     \* Parser::expr, a sequence of characters
  pos,      \* Parser::pos, a zero-based offset into expr
  stack,    \* the active calls of the parse functions, innermost last
  ret,      \* the value the last returning call returned
  output,   \* the last line main wrote
  tree,     \* for a generated input, the expression it was written from
  matched,  \* the calls of match made by the last step, in order
  steps     \* the steps parser.parse() has taken so far

vars ==
  <<pcMain, expr, pos, stack, ret, output, tree, matched, steps>>

NoTree == <<"none">>

Line(kind, value, err, at, ch) ==
  [kind |-> kind, value |-> value, err |-> err, at |-> at, ch |-> ch]

\* "C++ Calculator (type 'exit' to quit)"
Banner == Line("banner", Zero, "", 0, "")

\* "\nEnter expression: "
PromptLine == Line("prompt", Zero, "", 0, "")

\* "Exiting calculator. Goodbye!"
ByeLine == Line("bye", Zero, "", 0, "")

\* "Result: " << result
ResultLine(v) == Line("result", v, "", 0, "")

\* "Error: " << ex.what(); only "Unexpected token" names a character.
ErrorLine(kind, at, ch) == Line("error", Zero, kind, at, ch)

\* A call of fn that has not run yet.  pc is "enter" before the body runs and
\* "resume" while it waits for a callee; op is the operator or the branch the
\* body is in; value is its local variable value (base in parseExponent).
Frame(fn) == [fn |-> fn, pc |-> "enter", op |-> "", value |-> Zero]

Top == stack[Len(stack)]

Running(fn, pc) ==
  /\ pcMain = "eval"
  /\ stack # <<>>
  /\ Top.fn = fn
  /\ Top.pc = pc

\* The stack with its top frame replaced by f.
WithTop(f) == [stack EXCEPT ![Len(stack)] = f]

Popped == SubSeq(stack, 1, Len(stack) - 1)

\* The step ends inside the parser with the cursor at p, having made the
\* calls of match in log.
Goes(p, st, r, log) ==
  /\ pos' = p
  /\ stack' = st
  /\ ret' = r
  /\ matched' = log
  /\ steps' = steps + 1
  /\ UNCHANGED <<pcMain, expr, output, tree>>

\* The top frame, waiting in state f, calls fn with the cursor at p.
Calls(f, fn, p, log) ==
  Goes(p, Append(WithTop([f EXCEPT !.pc = "resume"]), Frame(fn)), ret, log)

\* The top frame returns v with the cursor at p.
Returns(v, p, log) == Goes(p, Popped, v, log)

\* throw std::runtime_error(kind at position `at`), caught by main, which
\* writes the error and goes on to the next prompt.
Throws(kind, at, ch, p, log) ==
  /\ pos' = p
  /\ stack' = <<>>
  /\ matched' = log
  /\ output' = ErrorLine(kind, at, ch)
  /\ pcMain' = "prompt"
  /\ steps' = steps + 1
  /\ UNCHANGED <<expr, ret, tree>>

\* ---------------------------------------------------------------- Parser

\* parse(), up to its call of parseExpression.
parseEnter ==
  /\ Running("parse", "enter")
  /\ Calls(Top, "parseExpression", pos, <<>>)

\* parseResume with the bug of returning the result without looking at what
\* is left of the input.
parseResumeUnchecked ==
  /\ Running("parse", "resume")
  /\ pos' = pos
  /\ stack' = <<>>
  /\ matched' = <<>>
  /\ output' = ResultLine(ret)
  /\ pcMain' = "prompt"
  /\ steps' = steps + 1
  /\ UNCHANGED <<expr, ret, tree>>

\* parse(), from the return of parseExpression: the whole input must have
\* been consumed; main then writes the result.
parseResume ==
  /\ Running("parse", "resume")
  /\ LET q == skipWhitespace(expr, pos)
     IN IF q # Len(expr)
        THEN Throws(UnexpectedToken, q, currentChar(expr, q), q, <<>>)
        ELSE /\ pos' = q
             /\ stack' = <<>>
             /\ matched' = <<>>
                        /\ output' = ResultLine(ret)
             /\ pcMain' = "prompt"
             /\ steps' = steps + 1
             /\ UNCHANGED <<expr, ret, tree>>

\* parseExpressionEnter with the bug of taking the first operand from
\* parseExponent, so that a product is no operand of '+' and '-'.
parseExpressionEnterSkipsTerm ==
  /\ Running("parseExpression", "enter")
  /\ Calls(Top, "parseExponent", pos, <<>>)

\* parseExpression(), up to its first call of parseTerm.
parseExpressionEnter ==
  /\ Running("parseExpression", "enter")
  /\ Calls(Top, "parseTerm", pos, <<>>)

\* parseExpression(), from the return of a parseTerm: the operand is taken
\* (value = ..., value += rhs or value -= rhs) and the loop looks for the
\* next '+' or '-'.
parseExpressionResume ==
  /\ Running("parseExpression", "resume")
  /\ LET value == IF Top.op = "+" THEN Add(Top.value, ret)
                  ELSE IF Top.op = "-" THEN Sub(Top.value, ret)
                  ELSE ret
         q == skipWhitespace(expr, pos)
         plus == match(expr, q, "+")
         minus == match(expr, plus.pos, "-")
     IN IF plus.ok
        THEN Calls([Top EXCEPT !.value = value, !.op = "+"], "parseTerm",
                   plus.pos, <<plus>>)
        ELSE IF minus.ok
        THEN Calls([Top EXCEPT !.value = value, !.op = "-"], "parseTerm",
                   minus.pos, <<plus, minus>>)
        ELSE Returns(value, minus.pos, <<plus, minus>>)

\* parseTerm(), up to its first call of parseExponent.
parseTermEnter ==
  /\ Running("parseTerm", "enter")
  /\ Calls(Top, "parseExponent", pos, <<>>)

\* parseTerm(), from the return of a parseExponent: the operand is taken
\* (value = ..., value *= rhs, or value /= rhs unless rhs == 0.0) and the
\* loop looks for the next '*' or '/'.
parseTermResume ==
  /\ Running("parseTerm", "resume")
  /\ IF Top.op = "/" /\ IsZero(ret)
     THEN Throws(DivisionByZero, pos, "", pos, <<>>)
     ELSE LET value == IF Top.op = "*" THEN Mul(Top.value, ret)
                       ELSE IF Top.op = "/" THEN Div(Top.value, ret)
                       ELSE ret
              q == skipWhitespace(expr, pos)
              times == match(expr, q, "*")
              over == match(expr, times.pos, "/")
          IN IF times.ok
             THEN Calls([Top EXCEPT !.value = value, !.op = "*"],
                        "parseExponent", times.pos, <<times>>)
             ELSE IF over.ok
             THEN Calls([Top EXCEPT !.value = value, !.op = "/"],
                        "parseExponent", over.pos, <<times, over>>)
             ELSE Returns(value, over.pos, <<times, over>>)

\* parseExponent(), up to its call of parsePrimary.
parseExponentEnter ==
  /\ Running("parseExponent", "enter")
  /\ Calls(Top, "parsePrimary", pos, <<>>)

\* parseExponentResume with the bug of a loop over '^' that takes each
\* exponent from parsePrimary: the powers group from the left.
parseExponentResumeLoop ==
  /\ Running("parseExponent", "resume")
  /\ LET base == IF Top.op = "^" THEN Pow(Top.value, ret) ELSE ret
         q == skipWhitespace(expr, pos)
         hat == match(expr, q, "^")
     IN IF hat.ok
        THEN Calls([Top EXCEPT !.value = base, !.op = "^"], "parsePrimary",
                   hat.pos, <<hat>>)
        ELSE Returns(base, hat.pos, <<hat>>)

\* parseExponent(), from the return of parsePrimary (the base: a '^' makes
\* it call itself for the exponent) or of that call (the power is returned).
parseExponentResume ==
  /\ Running("parseExponent", "resume")
  /\ IF Top.op = "^"
     THEN Returns(Pow(Top.value, ret), pos, <<>>)
     ELSE LET q == skipWhitespace(expr, pos)
              hat == match(expr, q, "^")
          IN IF hat.ok
             THEN Calls([Top EXCEPT !.value = ret, !.op = "^"],
                        "parseExponent", hat.pos, <<hat>>)
             ELSE Returns(ret, hat.pos, <<hat>>)

\* parsePrimaryEnter with the bug of leaving a unary sign unconsumed.
parsePrimaryEnterKeepsSign ==
  /\ Running("parsePrimary", "enter")
  /\ LET q == skipWhitespace(expr, pos)
         plus == match(expr, q, "+")
         minus == match(expr, plus.pos, "-")
         open == match(expr, minus.pos, "(")
     IN IF plus.ok
        THEN Calls([Top EXCEPT !.op = "+"], "parsePrimary", q, <<plus>>)
        ELSE IF minus.ok
        THEN Calls([Top EXCEPT !.op = "-"], "parsePrimary", q,
                   <<plus, minus>>)
        ELSE IF open.ok
        THEN Calls([Top EXCEPT !.op = "("], "parseExpression", open.pos,
                   <<plus, minus, open>>)
        ELSE Calls([Top EXCEPT !.op = "number"], "parseNumber", open.pos,
                   <<plus, minus, open>>)

\* parsePrimaryEnter without its own call of skipWhitespace() before the
\* first match.
parsePrimaryEnterNoSkip ==
  /\ Running("parsePrimary", "enter")
  /\ LET plus == match(expr, pos, "+")
         minus == match(expr, plus.pos, "-")
         open == match(expr, minus.pos, "(")
     IN IF plus.ok
        THEN Calls([Top EXCEPT !.op = "+"], "parsePrimary", plus.pos,
                   <<plus>>)
        ELSE IF minus.ok
        THEN Calls([Top EXCEPT !.op = "-"], "parsePrimary", minus.pos,
                   <<plus, minus>>)
        ELSE IF open.ok
        THEN Calls([Top EXCEPT !.op = "("], "parseExpression", open.pos,
                   <<plus, minus, open>>)
        ELSE Calls([Top EXCEPT !.op = "number"], "parseNumber", open.pos,
                   <<plus, minus, open>>)

\* parsePrimary(), up to its call of parsePrimary (a unary sign),
\* parseExpression (an open parenthesis) or parseNumber.
parsePrimaryEnter ==
  /\ Running("parsePrimary", "enter")
  /\ LET q == skipWhitespace(expr, pos)
         plus == match(expr, q, "+")
         minus == match(expr, plus.pos, "-")
         open == match(expr, minus.pos, "(")
     IN IF plus.ok
        THEN Calls([Top EXCEPT !.op = "+"], "parsePrimary", plus.pos,
                   <<plus>>)
        ELSE IF minus.ok
        THEN Calls([Top EXCEPT !.op = "-"], "parsePrimary", minus.pos,
                   <<plus, minus>>)
        ELSE IF open.ok
        THEN Calls([Top EXCEPT !.op = "("], "parseExpression", open.pos,
                   <<plus, minus, open>>)
        ELSE Calls([Top EXCEPT !.op = "number"], "parseNumber", open.pos,
                   <<plus, minus, open>>)

\* parsePrimaryResume with the bug of going on when the ')' is missing.
parsePrimaryResumeLenient ==
  /\ Running("parsePrimary", "resume")
  /\ IF Top.op = "+" THEN Returns(ret, pos, <<>>)
     ELSE IF Top.op = "-" THEN Returns(Neg(ret), pos, <<>>)
     ELSE IF Top.op = "("
     THEN LET q == skipWhitespace(expr, pos)
              close == match(expr, q, ")")
          IN Returns(ret, close.pos, <<close>>)
     ELSE Returns(ret, pos, <<>>)

\* parsePrimary(), from the return of its callee: the operand of a sign is
\* returned as it is or negated, a parenthesised expression needs its ')',
\* a number is returned.
parsePrimaryResume ==
  /\ Running("parsePrimary", "resume")
  /\ IF Top.op = "+" THEN Returns(ret, pos, <<>>)
     ELSE IF Top.op = "-" THEN Returns(Neg(ret), pos, <<>>)
     ELSE IF Top.op = "("
     THEN LET q == skipWhitespace(expr, pos)
              close == match(expr, q, ")")
          IN IF ~close.ok
             THEN Throws(UnmatchedParenthesis, close.pos, "", close.pos,
                         <<close>>)
             ELSE Returns(ret, close.pos, <<close>>)
     ELSE Returns(ret, pos, <<>>)

\* parseNumber with the bug of reporting where the literal starts for a
\* second decimal point.
parseNumberReportsStart ==
  /\ Running("parseNumber", "enter")
  /\ LET start == skipWhitespace(expr, pos)
         scan == scanNumber(expr, start, FALSE)
         number == stod(substr(expr, start, scan.pos))
     IN IF scan.bad
        THEN Throws(MalformedNumber, start, "", scan.pos, <<>>)
        ELSE IF start = scan.pos
        THEN Throws(ExpectedNumber, scan.pos, "", scan.pos, <<>>)
        ELSE IF ~number.ok
        THEN Throws(NumberConversionError, start, "", scan.pos, <<>>)
        ELSE Returns(number.value, scan.pos, <<>>)

\* parseNumber()
parseNumber ==
  /\ Running("parseNumber", "enter")
  /\ LET start == skipWhitespace(expr, pos)
         scan == scanNumber(expr, start, FALSE)
         number == stod(substr(expr, start, scan.pos))
     IN IF scan.bad
        THEN Throws(MalformedNumber, scan.pos, "", scan.pos, <<>>)
        ELSE IF start = scan.pos
        THEN Throws(ExpectedNumber, scan.pos, "", scan.pos, <<>>)
        ELSE IF ~number.ok
        THEN Throws(NumberConversionError, start, "", scan.pos, <<>>)
        ELSE Returns(number.value, scan.pos, <<>>)

\* ------------------------------------------------- reference expressions

\* The literals of a generated expression.
Literals == {"2", "3"}

\* The expressions with exactly k operators: <<"lit", digit>>,
\* <<"un", sign, operand>> and <<"bin", operator, left, right>>.
RECURSIVE TreesOf(_)
TreesOf(k) ==
  IF k = 0 THEN {<<"lit", c>> : c \in Literals}
  ELSE {<<"un", sign, t>> : sign \in {"+", "-"}, t \in TreesOf(k - 1)}
       \cup UNION {{<<"bin", op, l, r>> :
                       op \in Operators, l \in TreesOf(i),
                       r \in TreesOf(k - 1 - i)} : i \in 0..(k - 1)}

Trees == UNION {TreesOf(k) : k \in 0..MaxOps}

\* Conventional precedence: 1 for + and -, 2 for * and /, 3 for ^, and 4 for
\* a sign, a literal or a parenthesised expression.
Level(t) ==
  IF t[1] = "bin"
  THEN IF t[2] \in {"+", "-"} THEN 1 ELSE IF t[2] \in {"*", "/"} THEN 2 ELSE 3
  ELSE 4

\* The text of t where an operand of level at least lvl is needed: a looser
\* operand is parenthesised.  + - * / take a tighter right operand (they
\* group from the left); ^ takes a tighter left operand (from the right).
RECURSIVE Unparse(_, _)
Unparse(t, lvl) ==
  LET text == IF t[1] = "lit" THEN <<t[2]>>
              ELSE IF t[1] = "un" THEN <<t[2]>> \o Unparse(t[3], 4)
              ELSE IF Level(t) = 3
              THEN Unparse(t[3], 4) \o <<t[2]>> \o Unparse(t[4], 3)
              ELSE Unparse(t[3], Level(t)) \o <<t[2]>>
                   \o Unparse(t[4], Level(t) + 1)
  IN IF Level(t) < lvl THEN <<"(">> \o text \o <<")">> ELSE text

\* The value of t, or no value when t divides by zero.
RECURSIVE Eval(_)
Eval(t) ==
  IF t[1] = "lit" THEN [ok |-> TRUE, value |-> Num(DigitVal(t[2]))]
  ELSE IF t[1] = "un"
  THEN LET x == Eval(t[3])
       IN IF ~x.ok THEN x
          ELSE [ok |-> TRUE,
                value |-> IF t[2] = "-" THEN Neg(x.value) ELSE x.value]
  ELSE LET l == Eval(t[3])
           r == Eval(t[4])
       IN IF ~l.ok THEN l
          ELSE IF ~r.ok THEN r
          ELSE IF t[2] = "/" /\ IsZero(r.value)
          THEN [ok |-> FALSE, value |-> Zero]
          ELSE [ok |-> TRUE,
                value |-> CASE t[2] = "+" -> Add(l.value, r.value)
                            [] t[2] = "-" -> Sub(l.value, r.value)
                            [] t[2] = "*" -> Mul(l.value, r.value)
                            [] t[2] = "/" -> Div(l.value, r.value)
                            [] t[2] = "^" -> Pow(l.value, r.value)]

\* ------------------------------------------------------------------ main

ExitText == <<"e", "x", "i", "t">>

\* Every line over the alphabet of at most MaxLen characters.
Strings == UNION {[1..k -> Alphabet] : k \in 0..MaxLen}

\* The lines main may read: "exit", every short line, and the text of every
\* generated expression.
Inputs ==
  {[text |-> ExitText, tree |-> NoTree]}
  \cup {[text |-> s, tree |-> NoTree] : s \in Strings}
  \cup {[text |-> Unparse(t, 1), tree |-> t] : t \in Trees}

\* std::cout << "\nEnter expression: "; the Parser of the last iteration is
\* gone.
Prompt ==
  /\ pcMain = "prompt"
  /\ pcMain' = "getline"
  /\ output' = PromptLine
  /\ expr' = <<>>
  /\ pos' = 0
  /\ stack' = <<>>
  /\ ret' = Zero
  /\ tree' = NoTree
  /\ matched' = <<>>
  /\ steps' = 0

\* std::getline(std::cin, input): "exit" ends the loop; any other line is
\* given to a new Parser, whose parse() is called.
GetLine ==
  /\ pcMain = "getline"
  /\ \E in \in Inputs :
       IF in.text = ExitText
       THEN /\ pcMain' = "halt"
            /\ output' = ByeLine
            /\ UNCHANGED <<expr, pos, stack, ret, tree, matched, steps>>
       ELSE /\ pcMain' = "eval"
            /\ expr' = in.text
            /\ pos' = 0
            /\ stack' = <<Frame("parse")>>
            /\ tree' = in.tree
            /\ UNCHANGED <<ret, output, matched, steps>>

Init ==
  /\ pcMain = "prompt"
  /\ expr = <<>>
  /\ pos = 0
  /\ stack = <<>>
  /\ ret = Zero
  /\ output = Banner
  /\ tree = NoTree
  /\ matched = <<>>
  /\ steps = 0

\* One step of parser.parse().
ParserStep ==
  \/ parseEnter
  \/ parseResume
  \/ parseExpressionEnter
  \/ parseExpressionResume
  \/ parseTermEnter
  \/ parseTermResume
  \/ parseExponentEnter
  \/ parseExponentResume
  \/ parsePrimaryEnter
  \/ parsePrimaryResume
  \/ parseNumber

Next ==
  \/ Prompt
  \/ GetLine
  \/ ParserStep

Spec == Init /\ [][Next]_vars

\* ------------------------------------------------------------ properties

\* main has written the outcome of an evaluation of expr.
Finished == pcMain = "prompt" /\ output.kind \in {"result", "error"}

\* The evaluation of expr returned a value.
Returned == pcMain = "prompt" /\ output.kind = "result"

\* The evaluation of expr failed with an error of this kind.
Failed(kind) ==
  pcMain = "prompt" /\ output.kind = "error" /\ output.err = kind

\* The offset of the first character of s at or after p that is not white
\* space, or Len(s) when there is none.
FirstSignificant(s, p) ==
  CHOOSE q \in p..Len(s) :
    /\ q = Len(s) \/ ~IsSpace(s[q + 1])
    /\ \A i \in p..(q - 1) : IsSpace(s[i + 1])

\* The step fails with this error, which main writes.
FailsWith(kind, at, ch) ==
  output' = ErrorLine(kind, at, ch) /\ pcMain' = "prompt" /\ stack' = <<>>

\* C1: parse returns a value only with the cursor at the end of the input;
\* when a character that is not white space is left after the expression, it
\* fails with UnexpectedToken, naming the offset of the first such character
\* and the character.
C1_WholeInputRequired ==
  /\ [](Returned => pos = Len(expr))
  /\ [][Running("parse", "resume") =>
          LET q == FirstSignificant(expr, pos)
          IN IF q < Len(expr)
             THEN FailsWith(UnexpectedToken, q, expr[q + 1])
             ELSE output' = ResultLine(ret) /\ pcMain' = "prompt"]_vars

\* "2 3" is rejected at offset 2, character '3'.
C1_Witness ==
  /\ Failed(UnexpectedToken)
  /\ expr = <<"2", " ", "3">>
  /\ output.at = 2
  /\ output.ch = "3"

\* C2: for a well-formed expression over integer literals, evaluate returns
\* the value of the reference evaluator with the conventional precedence
\* (signs and parentheses, then ^, then * and /, then + and -, the last two
\* levels grouping from the left), and fails where that one divides by zero.
C2_ConventionalPrecedence ==
  (Finished /\ tree # NoTree) =>
    LET e == Eval(tree)
    IN IF e.ok THEN output = ResultLine(e.value)
       ELSE output.kind = "error" /\ output.err = DivisionByZero

\* "3-2-2" is (3-2)-2 = -1, not 3-(2-2) = 3.
C2_Witness ==
  /\ Returned
  /\ expr = <<"3", "-", "2", "-", "2">>
  /\ tree # NoTree
  /\ output.value = Num(-1)

\* A chain digit ^ digit ^ ... ^ digit.
IsPowChain(s) ==
  /\ Len(s) >= 3
  /\ Len(s) % 2 = 1
  /\ \A i \in 1..Len(s) : IF i % 2 = 1 THEN IsDigit(s[i]) ELSE s[i] = "^"

\* The chain folded from the right: a1 ^ (a2 ^ (... ^ an)).
RECURSIVE ChainValue(_)
ChainValue(s) ==
  IF Len(s) = 1 THEN Num(DigitVal(s[1]))
  ELSE Pow(Num(DigitVal(s[1])), ChainValue(SubSeq(s, 3, Len(s))))

\* C3: exponentiation groups from the right: a chain a1^a2^...^an evaluates
\* to a1^(a2^(...^an)).
C3_PowerGroupsFromTheRight ==
  (Finished /\ IsPowChain(expr)) => output = ResultLine(ChainValue(expr))

\* "2^3^2" is 2^(3^2) = 512, and (2^3)^2 is 64.
C3_Witness ==
  /\ Returned
  /\ expr = <<"2", "^", "3", "^", "2">>
  /\ output.value = Num(512)
  /\ Pow(Pow(Num(2), Num(3)), Num(2)) = Num(64)

\* A divisor begins at offset p of s: the first character after a '/' that is
\* not white space.
DivisorBeginsAt(s, p) ==
  /\ p < Len(s)
  /\ ~IsSpace(s[p + 1])
  /\ \E j \in 0..(p - 1) :
       /\ s[j + 1] = "/"
       /\ \A i \in (j + 1)..(p - 1) : IsSpace(s[i + 1])

\* C4: an expression whose divisor is exactly 0, in whatever form, fails with
\* DivisionByZero, and a division by zero is reported at the offset where the
\* divisor began.
C4_DivisorPositionReported ==
  /\ (Finished /\ tree # NoTree /\ ~Eval(tree).ok) => Failed(DivisionByZero)
  /\ Failed(DivisionByZero) => DivisorBeginsAt(expr, output.at)

\* The end of the longest run of digits and '.' of s that starts at p.
RunEnd(s, p) ==
  CHOOSE e \in p..Len(s) :
    /\ e = Len(s) \/ ~(IsDigit(s[e + 1]) \/ s[e + 1] = ".")
    /\ \A i \in p..(e - 1) : IsDigit(s[i + 1]) \/ s[i + 1] = "."

\* The offsets of the decimal points of s in from..to-1.
Points(s, from, to) == {i \in from..(to - 1) : s[i + 1] = "."}

\* The second smallest of a set of offsets.
Second(ps) == CHOOSE i \in ps : Cardinality({j \in ps : j < i}) = 1

\* The number the digits ds spell, the last digit counting once.
RECURSIVE DigitsNumber(_)
DigitsNumber(ds) ==
  IF ds = <<>> THEN 0
  ELSE 10 * DigitsNumber(SubSeq(ds, 1, Len(ds) - 1)) + DigitVal(ds[Len(ds)])

RECURSIVE PowerOfTen(_)
PowerOfTen(k) == IF k = 0 THEN 1 ELSE 10 * PowerOfTen(k - 1)

\* The value of a literal: its digits as one number, over ten to the number
\* of digits behind the decimal point.
LiteralValue(run) ==
  LET digits == SelectSeq(run, IsDigit)
      behind == Cardinality({i \in 1..Len(run) :
                               /\ IsDigit(run[i])
                               /\ \E j \in 1..(i - 1) : run[j] = "."})
  IN Rat(DigitsNumber(digits), PowerOfTen(behind))

\* parseNumber returns the value of the run of s in start..end-1.
ReturnsLiteral(s, start, end) ==
  /\ pcMain' = "eval"
  /\ stack' = Popped
  /\ pos' = end
  /\ ret' = LiteralValue(substr(s, start, end))

\* C5 as claimed: parseNumber fails with ExpectedNumber on an empty run and
\* with MalformedNumber at a second decimal point; every other run is a
\* literal of one or more digits and is converted to a value.
C5_RunIsLiteralOrRejected ==
  [][Running("parseNumber", "enter") =>
       LET start == FirstSignificant(expr, pos)
           end == RunEnd(expr, start)
           points == Points(expr, start, end)
       IN IF end = start THEN FailsWith(ExpectedNumber, start, "")
          ELSE IF Cardinality(points) >= 2
          THEN FailsWith(MalformedNumber, Second(points), "")
          ELSE /\ \E i \in start..(end - 1) : IsDigit(expr[i + 1])
               /\ ReturnsLiteral(expr, start, end)]_vars

\* C5 as amended: a run with one decimal point and no digit is no literal;
\* it fails with NumberConversionError at the offset where the run starts.
C5_RunIsLiteralOrRejectedOrNotConverted ==
  [][Running("parseNumber", "enter") =>
       LET start == FirstSignificant(expr, pos)
           end == RunEnd(expr, start)
           points == Points(expr, start, end)
       IN IF end = start THEN FailsWith(ExpectedNumber, start, "")
          ELSE IF Cardinality(points) >= 2
          THEN FailsWith(MalformedNumber, Second(points), "")
          ELSE IF \A i \in start..(end - 1) : ~IsDigit(expr[i + 1])
          THEN FailsWith(NumberConversionError, start, "")
          ELSE ReturnsLiteral(expr, start, end)]_vars

\* " ." fails with NumberConversionError at offset 1.
C5_Witness ==
  /\ Failed(NumberConversionError)
  /\ expr = <<" ", ".">>
  /\ output.at = 1

\* How often the character c is in s.
Count(s, c) == Cardinality({i \in 1..Len(s) : s[i] = c})

\* C6: after a '(' and its expression, anything but a ')' as the next
\* significant character (the end of the input too) fails with
\* UnmatchedParenthesis at the offset where the ')' was expected; a returned
\* value means as many ')' as '(' were consumed.
C6_ClosingParenthesisRequired ==
  /\ [](Returned => Count(expr, "(") = Count(expr, ")"))
  /\ [][(Running("parsePrimary", "resume") /\ Top.op = "(") =>
          LET q == FirstSignificant(expr, pos)
          IN IF q < Len(expr) /\ expr[q + 1] = ")"
             THEN /\ pcMain' = "eval"
                  /\ stack' = Popped
                  /\ pos' = q + 1
                  /\ ret' = ret
             ELSE FailsWith(UnmatchedParenthesis, q, "")]_vars

\* "(2 " fails at offset 3, the end of the input, behind the blank.
C6_Witness ==
  /\ Failed(UnmatchedParenthesis)
  /\ expr = <<"(", "2", " ">>
  /\ output.at = 3

\* C7: the cursor stays within 0..length of the input and never moves back
\* during an evaluation.
C7_CursorInBoundsAndMonotone ==
  /\ [](0 <= pos /\ pos <= Len(expr))
  /\ [][pcMain = "eval" => pos' >= pos]_vars

\* An evaluation still running with the cursor at the end of a three
\* character input.
C7_Witness ==
  /\ pcMain = "eval"
  /\ stack # <<>>
  /\ Len(expr) = 3
  /\ pos = Len(expr)

\* The frames that have a step to take.
CanStep ==
  /\ stack # <<>>
  /\ Top.fn \in {"parse", "parseExpression", "parseTerm", "parseExponent",
                 "parsePrimary", "parseNumber"}
  /\ Top.pc \in {"enter", "resume"}
  /\ Top.fn = "parseNumber" => Top.pc = "enter"

\* The step is a call made by a loop iteration of parseExpression or
\* parseTerm, by parseExponent for the exponent, or by parsePrimary for the
\* operand of a sign or the inside of a parenthesis.
RepeatedCall ==
  /\ pcMain = "eval"
  /\ pcMain' = "eval"
  /\ Len(stack') = Len(stack) + 1
  /\ \/ Top.pc = "resume"
     \/ /\ Top.fn = "parsePrimary"
        /\ stack'[Len(stack')].fn \in {"parsePrimary", "parseExpression"}

\* C8: every evaluation ends, with a value or an error: a running
\* evaluation always has a next step, each repeated or recursive call comes
\* after a consumed character, and so the steps taken and the depth of the
\* recursion stay within bounds linear in the length of the input.
C8_EvaluationBounded ==
  /\ [](pcMain = "eval" => CanStep)
  /\ [](steps <= 8 * Len(expr) + 12)
  /\ [](Len(stack) <= 4 * pos + 6)
  /\ [][RepeatedCall => pos' > pos]_vars

\* "((2" ends, failing, after the deepest recursion of a three character
\* input.
C8_Witness ==
  /\ Failed(UnmatchedParenthesis)
  /\ expr = <<"(", "(", "2">>
  /\ steps > 2 * Len(expr)

\* C9: a newline in the input is never skipped, so no input holding one
\* evaluates to a value.
C9_NewlineRejected ==
  Returned => \A i \in 1..Len(expr) : expr[i] # "\n"

====
